---- MODULE Spec2Model ----
(***************************************************************************)
(* Order state machine, escrow ledger and dispute workflow of the GGamer    *)
(* marketplace backend (apps/orders, apps/disputes), as a state machine     *)
(* over the committed database rows and the transactions in flight.         *)
(*                                                                          *)
(* Database model: PostgreSQL READ COMMITTED under Django's                  *)
(* transaction.atomic.  A transaction reads committed rows (and its own     *)
(* writes), select_for_update()/UPDATE take an exclusive row lock that is   *)
(* held until the outermost atomic block ends, and an exception rolls back  *)
(* every write of the transaction.  Money amounts are integers (units of    *)
(* the smallest currency step).                                             *)
(***************************************************************************)
EXTENDS Integers, Sequences, FiniteSets, TLC

\* ------------------------------------------------------------------ bounds
\* order.total_amount of the one order of the model (price x quantity > 0)
TotalAmount == 2
\* cap on the DisputeDecision rows (close_dispute can be repeated for ever)
MaxDecisions == 2

\* ------------------------------------------------------------- vocabulary
CREATED == "CREATED"
PAID == "PAID"
IN_PROGRESS == "IN_PROGRESS"
DELIVERED == "DELIVERED"
CONFIRMED == "CONFIRMED"
DISPUTED == "DISPUTED"
REFUNDED == "REFUNDED"
CANCELLED == "CANCELLED"

\* Order.STATE_CHOICES
States ==
  {CREATED, PAID, IN_PROGRESS, DELIVERED, CONFIRMED, DISPUTED, REFUNDED, CANCELLED}

\* a string that is no order state (TRANSITIONS.get(from_state, []) default)
UNKNOWN == "UNKNOWN"

Terminal == {CONFIRMED, REFUNDED, CANCELLED}

\* EscrowAccount.STATUS_CHOICES
EscrowStatuses == {"HOLDING", "RELEASED", "REFUNDED", "PARTIAL"}

\* Dispute.STATUS_CHOICES
DisputeStatuses == {"OPEN", "IN_REVIEW", "RESOLVED", "CLOSED"}

\* the users of the model: the order's buyer, its seller, a staff member and
\* a user who is none of these; SYSTEM stands for user=None
BUYER == "buyer"
SELLER == "seller"
STAFF == "staff"
STRANGER == "stranger"
SYSTEM == "system"
Users == {BUYER, SELLER, STAFF, STRANGER}

\* faulty variant: every user passes
is_anyone(user) == user \in Users

is_buyer(user) == user = BUYER
is_seller(user) == user = SELLER
is_participant(user) == is_buyer(user) \/ is_seller(user)
is_staff(user) == user = STAFF

\* ------------------------------------------------------ the state machine
\* StateMachine.TRANSITIONS, with .get(from_state, []) for an unknown key
TRANSITIONS(from_state) ==
  CASE from_state = CREATED -> {PAID, CANCELLED}
    [] from_state = PAID -> {IN_PROGRESS, DISPUTED, CANCELLED}
    [] from_state = IN_PROGRESS -> {DELIVERED, DISPUTED, CANCELLED}
    [] from_state = DELIVERED -> {CONFIRMED, DISPUTED}
    [] from_state = DISPUTED -> {REFUNDED, CONFIRMED, CANCELLED}
    [] from_state = CONFIRMED -> {}
    [] from_state = REFUNDED -> {}
    [] from_state = CANCELLED -> {}
    [] OTHER -> {}

\* faulty variant: a self-loop on DELIVERED and an edge out of a terminal state
can_transition_loose(from_state, to_state) ==
  \/ to_state \in TRANSITIONS(from_state)
  \/ (from_state = CONFIRMED /\ to_state = CANCELLED)
  \/ (from_state = DELIVERED /\ to_state = DELIVERED)

can_transition(from_state, to_state) == to_state \in TRANSITIONS(from_state)

\* faulty variant: staff may also confirm
state_permissions_admin_confirms(to_state) ==
  CASE to_state = PAID -> {"system"}
    [] to_state = IN_PROGRESS -> {"seller"}
    [] to_state = DELIVERED -> {"seller"}
    [] to_state = CONFIRMED -> {"buyer", "admin"}
    [] to_state = DISPUTED -> {"buyer", "seller"}
    [] to_state = CANCELLED -> {"buyer", "seller", "admin"}
    [] to_state = REFUNDED -> {"admin"}
    [] OTHER -> {}

\* state_permissions of validate_user_can_transition
state_permissions(to_state) ==
  CASE to_state = PAID -> {"system"}
    [] to_state = IN_PROGRESS -> {"seller"}
    [] to_state = DELIVERED -> {"seller"}
    [] to_state = CONFIRMED -> {"buyer"}
    [] to_state = DISPUTED -> {"buyer", "seller"}
    [] to_state = CANCELLED -> {"buyer", "seller", "admin"}
    [] to_state = REFUNDED -> {"admin"}
    [] OTHER -> {}

\* validate_user_can_transition: "ok" when it returns, else the exception
validate_user_can_transition(user, to_state) ==
  LET allowed_roles == state_permissions(to_state) IN
  IF "seller" \in allowed_roles /\ is_seller(user) THEN "ok"
  ELSE IF "buyer" \in allowed_roles /\ is_buyer(user) THEN "ok"
  ELSE IF "admin" \in allowed_roles /\ is_staff(user) THEN "ok"
  ELSE "PermissionDenied"

\* ------------------------------------------------------ the escrow ledger
NoEscrow ==
  [exists |-> FALSE, held |-> 0, released |-> 0, refunded |-> 0,
   status |-> "HOLDING"]

\* EscrowAccount.remaining_balance
remaining_balance(e) == e.held - e.released - e.refunded

\* create_escrow: the row EscrowAccount.objects.create(...) inserts
new_escrow(total_amount) ==
  [exists |-> TRUE, held |-> total_amount, released |-> 0, refunded |-> 0,
   status |-> "HOLDING"]

\* faulty variant: the state of the order is not looked at
create_escrow_check_any_state(order_state, e) ==
  IF e.exists THEN "AlreadyExists" ELSE "ok"

\* create_escrow: its two guards, on the order and the escrow the caller sees
create_escrow_check(order_state, e) ==
  IF order_state # PAID THEN "NotPaid"
  ELSE IF e.exists THEN "AlreadyExists"
  ELSE "ok"

\* faulty variant: the default amount is the amount held, not what remains of it
default_amount_held(copy, hasAmt, amt) ==
  IF hasAmt THEN amt ELSE copy.held

\* release_funds / refund_buyer: the amount when none is given, computed on
\* the caller's copy of the account
default_amount(copy, hasAmt, amt) ==
  IF hasAmt THEN amt ELSE remaining_balance(copy)

\* faulty variant: a zero amount passes (< instead of <=)
amount_check_allows_zero(copy, amount) ==
  IF amount < 0 THEN "InvalidAmount"
  ELSE IF amount > remaining_balance(copy) THEN "InvalidAmount"
  ELSE "ok"

\* faulty variant: the upper bound of the amount is not checked
amount_check_unbounded(copy, amount) ==
  IF amount <= 0 THEN "InvalidAmount" ELSE "ok"

\* release_funds / refund_buyer: the validation, on the caller's copy
amount_check(copy, amount) ==
  IF amount <= 0 THEN "InvalidAmount"
  ELSE IF amount > remaining_balance(copy) THEN "InvalidAmount"
  ELSE "ok"

\* faulty variant: what is released is taken off the amount held
release_apply_from_held(locked, amount) ==
  LET e == [locked EXCEPT !.released = @ + amount, !.held = @ - amount] IN
  [e EXCEPT !.status = IF e.held = 0 THEN "RELEASED" ELSE "PARTIAL"]

\* faulty variant: the status is not recomputed
release_apply_keeps_status(locked, amount) ==
  [locked EXCEPT !.released = @ + amount]

\* release_funds: the update of the locked row
release_apply(locked, amount) ==
  LET e == [locked EXCEPT !.released = @ + amount] IN
  [e EXCEPT !.status = IF remaining_balance(e) = 0 THEN "RELEASED" ELSE "PARTIAL"]

\* faulty variant: the refund is booked as a release
refund_apply_as_release(locked, amount) ==
  LET e == [locked EXCEPT !.released = @ + amount] IN
  [e EXCEPT !.status = IF remaining_balance(e) = 0 THEN "REFUNDED" ELSE "PARTIAL"]

\* refund_buyer: the update of the locked row
refund_apply(locked, amount) ==
  LET e == [locked EXCEPT !.refunded = @ + amount] IN
  [e EXCEPT !.status = IF remaining_balance(e) = 0 THEN "REFUNDED" ELSE "PARTIAL"]

\* partial_refund: the validation, on the caller's copy
partial_check(copy, buyer_amount, seller_amount) ==
  IF buyer_amount < 0 \/ seller_amount < 0 THEN "InvalidAmount"
  ELSE IF buyer_amount + seller_amount > remaining_balance(copy) THEN "InvalidAmount"
  ELSE "ok"

\* faulty variant: only the buyer's part is booked
partial_apply_buyer_only(locked, buyer_amount, seller_amount) ==
  [locked EXCEPT !.refunded = @ + buyer_amount, !.status = "PARTIAL"]

\* partial_refund: the update of the locked row
partial_apply(locked, buyer_amount, seller_amount) ==
  [locked EXCEPT !.refunded = @ + buyer_amount,
                 !.released = @ + seller_amount,
                 !.status = "PARTIAL"]

\* ------------------------------------------------------------------ state
VARIABLES
  offer,          \* the Offer row the order was placed on: stock, sales, status
  orders,         \* the Order rows create_order has inserted since, oldest first
  evidence,       \* the DisputeEvidence rows, oldest first
  messages,       \* the DisputeMessage rows, oldest first
  order,          \* the Order row: parties, amounts, state, paid_at, completed_at
  logs,           \* the OrderStateLog rows of the order, oldest first
  escrow,         \* the EscrowAccount row of the order (exists = FALSE: none)
  disputes,       \* the Dispute rows of the order, oldest first
  decisions,      \* the DisputeDecision rows, oldest first
  seller_active,  \* User.is_active of the order's seller
  locks,          \* the row locks held: a set of <<row, transaction>>
  tx,             \* per request: the position and locals of its transaction
  last,           \* the request that has just ended (who called what, the result)
  call            \* the last application of a pure function, with its result

vars ==
  <<offer, orders, evidence, messages,
    order, logs, escrow, disputes, decisions, seller_active, locks, tx, last, call>>

\* the concurrent requests of the model
Procs == {1, 2}

\* the rows that are locked
ORDER_ROW == <<"order", 0>>
ESCROW_ROW == <<"escrow", 0>>
SELLER_ROW == <<"seller", 0>>
DISPUTE_ROW(d) == <<"dispute", d>>

\* the writes a transaction has made and not yet committed: each field is
\* empty or holds the one new value
NoWrites ==
  [order |-> <<>>, log |-> <<>>, escrow |-> <<>>, new_dispute |-> <<>>,
   dispute |-> <<>>, decision |-> <<>>, seller |-> <<>>]

IdleTx ==
  [pc |-> "idle", op |-> "none", user |-> SYSTEM, d |-> 0, quantity |-> 0,
   hasAmt |-> FALSE, amt |-> 0, bAmt |-> 0, sAmt |-> 0,
   copy |-> NoEscrow, amount |-> 0, to |-> "", startState |-> "",
   startStatus |-> "", w |-> NoWrites]

NoCall == [fn |-> "none", a |-> "", b |-> "", result |-> FALSE]

\* the stock of the offer once the order has been placed on it
InitialStock == 2

\* Offer.min_purchase (its default)
min_purchase == 1

\* Order.quantity of the order
OrderQuantity == 1

\* the offer as it stands when the order has just been created: one sale;
\* amounts are counted in hundredths (the two decimal places of the fields)
NewOffer ==
  [seller |-> SELLER, price_per_unit |-> TotalAmount,
   available_stock |-> InitialStock, sales_count |-> 1, status |-> "ACTIVE"]

\* OrderService.PLATFORM_FEE_PERCENT
PLATFORM_FEE_PERCENT == 10

\* Offer.calculate_total_price
calculate_total_price(o, quantity) == o.price_per_unit * quantity

\* OrderService.calculate_platform_fee: the percentage of the total, quantized
\* to two decimal places (halves go to the even neighbour)
calculate_platform_fee(total_amount) ==
  LET n == total_amount * PLATFORM_FEE_PERCENT
      q == n \div 100
      r == n % 100
  IN IF r > 50 \/ (r = 50 /\ q % 2 = 1) THEN q + 1 ELSE q

\* the Order row Order.objects.create(...) of create_order inserts for buyer
\* on the offer o (state=CREATED, no timestamps)
new_order(buyer, o, quantity) ==
  [buyer |-> buyer, seller |-> o.seller, quantity |-> quantity,
   unit_price |-> o.price_per_unit,
   total_amount |-> calculate_total_price(o, quantity),
   platform_fee |-> calculate_platform_fee(calculate_total_price(o, quantity)),
   seller_amount |-> calculate_total_price(o, quantity)
                       - calculate_platform_fee(calculate_total_price(o, quantity)),
   state |-> CREATED, paid_at |-> FALSE, completed_at |-> FALSE]

\* the order of the model, as create_order left it: placed by the buyer on
\* the seller's offer
NewOrder == new_order(BUYER, NewOffer, OrderQuantity)

\* the amounts a caller may pass: negative, zero, up to more than is held
Amounts == (0 - 1) .. (TotalAmount + 1)

\* no request has ended yet
NoLast ==
  [p |-> 0, op |-> "none", user |-> SYSTEM, d |-> 0, quantity |-> 0,
   hasAmt |-> FALSE, amt |-> 0,
   bAmt |-> 0, sAmt |-> 0, startState |-> "", result |-> ""]

\* the request t of p has ended with result ("ok", or the exception raised)
Outcome(p, t, result) ==
  [p |-> p, op |-> t.op, user |-> t.user, d |-> t.d, quantity |-> t.quantity,
   hasAmt |-> t.hasAmt, amt |-> t.amt,
   bAmt |-> t.bAmt, sAmt |-> t.sAmt, startState |-> t.startState,
   result |-> result]

\* the result of the call that has just ended is handed back before anything
\* else is done
Ready == last = NoLast

\* the caller takes the result
Return ==
  /\ last # NoLast
  /\ last' = NoLast
  /\ UNCHANGED <<offer, orders, evidence, messages, order, logs, escrow, disputes, decisions, seller_active, locks, tx, call>>

LockFree(row, p) == \A q \in Procs : q # p => <<row, q>> \notin locks
Release(p) == {l \in locks : l[2] # p}

\* a fresh database: one order just created, nothing else
InitRows ==
  /\ offer = NewOffer
  /\ orders = <<>>
  /\ evidence = <<>>
  /\ messages = <<>>
  /\ order = NewOrder
  /\ logs = <<>>
  /\ escrow = NoEscrow
  /\ disputes = <<>>
  /\ decisions = <<>>
  /\ seller_active = TRUE
  /\ locks = {}
  /\ tx = [p \in Procs |-> IdleTx]
  /\ last = NoLast

\* ------------------------------------------- direct calls of the ledger
LedgerOps == {"create_escrow", "release_funds", "refund_buyer", "partial_refund"}

\* the part of a ledger call that runs before select_for_update: the caller's
\* copy of the account is read, the amount defaulted and validated on it
LedgerCheck(op, copy, hasAmt, amt, b, s) ==
  CASE op = "create_escrow" -> create_escrow_check(order.state, copy)
    [] op = "partial_refund" -> partial_check(copy, b, s)
    [] OTHER -> amount_check(copy, default_amount(copy, hasAmt, amt))

LedgerCall(p, op, hasAmt, amt, b, s) ==
  /\ Ready
  /\ tx[p].pc = "idle"
  /\ op \in LedgerOps
  /\ op # "create_escrow" => escrow.exists
  /\ LET copy == escrow
         check == LedgerCheck(op, copy, hasAmt, amt, b, s)
         t == [IdleTx EXCEPT !.op = op, !.hasAmt = hasAmt, !.amt = amt,
                             !.bAmt = b, !.sAmt = s, !.copy = copy,
                             !.amount = IF op \in {"release_funds", "refund_buyer"}
                                        THEN default_amount(copy, hasAmt, amt) ELSE 0]
     IN IF check = "ok"
        THEN tx' = [tx EXCEPT ![p] = [t EXCEPT !.pc = "lock_escrow"]] /\ UNCHANGED last
        ELSE last' = Outcome(p, t, check) /\ UNCHANGED tx
  /\ UNCHANGED <<offer, orders, evidence, messages, order, logs, escrow, disputes, decisions, seller_active, locks, call>>

\* the row the ledger call writes once it holds the row lock
LedgerWrite(t, locked) ==
  CASE t.op = "create_escrow" -> new_escrow(TotalAmount)
    [] t.op = "release_funds" -> release_apply(locked, t.amount)
    [] t.op = "refund_buyer" -> refund_apply(locked, t.amount)
    [] OTHER -> partial_apply(locked, t.bAmt, t.sAmt)

\* select_for_update, the update, save and the commit of the ledger's own
\* atomic block; a second INSERT for the same order breaks the one-to-one key
LedgerApply(p) ==
  /\ Ready
  /\ tx[p].pc = "lock_escrow"
  /\ tx[p].op \in LedgerOps
  /\ LockFree(ESCROW_ROW, p)
  /\ IF tx[p].op = "create_escrow" /\ escrow.exists
     THEN /\ last' = Outcome(p, tx[p], "IntegrityError")
          /\ UNCHANGED escrow
     ELSE /\ escrow' = LedgerWrite(tx[p], escrow)
          /\ last' = Outcome(p, tx[p], "ok")
  /\ tx' = [tx EXCEPT ![p] = IdleTx]
  /\ UNCHANGED <<offer, orders, evidence, messages, order, logs, disputes, decisions, seller_active, locks, call>>

LedgerStep(p) ==
  \/ \E op \in {"release_funds", "refund_buyer"}, hasAmt \in BOOLEAN, amt \in Amounts :
       /\ (~hasAmt => amt = 0)
       /\ LedgerCall(p, op, hasAmt, amt, 0, 0)
  \/ \E b \in Amounts, s \in Amounts : LedgerCall(p, "partial_refund", FALSE, 0, b, s)
  \/ LedgerCall(p, "create_escrow", FALSE, 0, 0, 0)
  \/ LedgerApply(p)

\* the ledger is called on an order that was just created or just paid
InitLedger ==
  /\ offer = NewOffer
  /\ orders = <<>>
  /\ evidence = <<>>
  /\ messages = <<>>
  /\ order \in {[NewOrder EXCEPT !.state = s, !.paid_at = (s = PAID)] : s \in {CREATED, PAID}}
  /\ logs = <<>>
  /\ escrow = NoEscrow
  /\ disputes = <<>>
  /\ decisions = <<>>
  /\ seller_active = TRUE
  /\ locks = {}
  /\ tx = [p \in Procs |-> IdleTx]
  /\ last = NoLast
  /\ call = NoCall

\* one caller: each call ends before the next one reads the account
NextSeq == LedgerStep(1) \/ Return
SpecSeq == InitLedger /\ [][NextSeq]_vars

\* concurrent callers
NextLedger == (\E p \in Procs : LedgerStep(p)) \/ Return
SpecLedger == InitLedger /\ [][NextLedger]_vars

\* ------------------------------------------- transactions of the services
\* the transaction t of p commits: its writes w reach the rows, its locks end
Commit(p, t, w) ==
  /\ order' = IF w.order # <<>> THEN w.order[1] ELSE order
  /\ logs' = logs \o w.log
  /\ escrow' = IF w.escrow # <<>> THEN w.escrow[1] ELSE escrow
  /\ disputes' =
       (IF w.dispute # <<>>
        THEN [disputes EXCEPT ![w.dispute[1].d].status = w.dispute[1].status]
        ELSE disputes) \o w.new_dispute
  /\ decisions' = decisions \o w.decision
  /\ seller_active' = IF w.seller # <<>> THEN w.seller[1] ELSE seller_active
  /\ locks' = Release(p)
  /\ tx' = [tx EXCEPT ![p] = IdleTx]
  /\ last' = Outcome(p, t, "ok")
  /\ UNCHANGED <<offer, orders, evidence, messages, call>>

\* faulty variant: the writes made before the exception stay
Abort_keeps_writes(p, t, err) ==
  /\ order' = IF t.w.order # <<>> THEN t.w.order[1] ELSE order
  /\ logs' = logs \o t.w.log
  /\ escrow' = IF t.w.escrow # <<>> THEN t.w.escrow[1] ELSE escrow
  /\ disputes' =
       (IF t.w.dispute # <<>>
        THEN [disputes EXCEPT ![t.w.dispute[1].d].status = t.w.dispute[1].status]
        ELSE disputes) \o t.w.new_dispute
  /\ decisions' = decisions \o t.w.decision
  /\ seller_active' = IF t.w.seller # <<>> THEN t.w.seller[1] ELSE seller_active
  /\ locks' = Release(p)
  /\ tx' = [tx EXCEPT ![p] = IdleTx]
  /\ last' = Outcome(p, t, err)
  /\ UNCHANGED <<offer, orders, evidence, messages, call>>

\* an exception leaves the outermost atomic block: every write is rolled back
Abort(p, t, err) ==
  /\ tx' = [tx EXCEPT ![p] = IdleTx]
  /\ last' = Outcome(p, t, err)
  /\ locks' = Release(p)
  /\ UNCHANGED <<offer, orders, evidence, messages, order, logs, escrow, disputes, decisions, seller_active, call>>

\* p now holds row, has the writes w pending, and goes on to its next lock
Proceed(p, t, row, pc, w, copy, amount) ==
  /\ tx' = [tx EXCEPT ![p] = [t EXCEPT !.pc = pc, !.w = w, !.copy = copy,
                                       !.amount = amount]]
  /\ locks' = locks \cup {<<row, p>>}
  /\ UNCHANGED <<offer, orders, evidence, messages, order, logs, escrow, disputes, decisions, seller_active, last, call>>

\* faulty variant: a transition to REFUNDED also clears what the seller is due
transition_apply_clears_seller_amount(locked_order, to_state) ==
  [locked_order EXCEPT
     !.state = to_state,
     !.paid_at = IF to_state = PAID THEN TRUE ELSE locked_order.paid_at,
     !.completed_at = IF to_state \in {CONFIRMED, REFUNDED, CANCELLED}
                      THEN TRUE ELSE locked_order.completed_at,
     !.seller_amount = IF to_state = REFUNDED THEN 0 ELSE locked_order.seller_amount]

\* faulty variant: delivery counts as completion
transition_apply_completes_on_delivery(locked_order, to_state) ==
  [locked_order EXCEPT
     !.state = to_state,
     !.paid_at = IF to_state = PAID THEN TRUE ELSE locked_order.paid_at,
     !.completed_at = IF to_state \in {DELIVERED, CONFIRMED, REFUNDED, CANCELLED}
                      THEN TRUE ELSE locked_order.completed_at]

\* StateMachine.transition: the new Order row (state and timestamps)
transition_apply(locked_order, to_state) ==
  [locked_order EXCEPT
     !.state = to_state,
     !.paid_at = IF to_state = PAID THEN TRUE ELSE locked_order.paid_at,
     !.completed_at = IF to_state \in {CONFIRMED, REFUNDED, CANCELLED}
                      THEN TRUE ELSE locked_order.completed_at]

\* faulty variant: the record does not name the acting user
log_row_unsigned(old_state, to_state, user) ==
  [from_state |-> old_state, to_state |-> to_state, changed_by |-> SYSTEM]

\* StateMachine.transition: the OrderStateLog row
log_row(old_state, to_state, user) ==
  [from_state |-> old_state, to_state |-> to_state, changed_by |-> user]

\* the ledger call a service makes on order.escrow: its validation on the
\* copy of the account the service has just read
service_ledger_check(op, copy, b, s) ==
  IF op = "dispute_partial_refund" THEN partial_check(copy, b, s)
  ELSE amount_check(copy, default_amount(copy, FALSE, 0))

\* faulty variant: the state of the order as the caller of t read it
caller_order_state(t) == t.startState

\* StateMachine.transition: the state of the row read by select_for_update
locked_order_state(t) == order.state

\* StateMachine.transition under the order lock, and what each service does
\* after it: create_escrow (mark_as_paid), release_funds up to its lock
\* (confirm_delivery), refund_buyer up to its lock (cancel_order), or the end
\* of the transaction
OrderStep(p, t) ==
  LET w1 == [t.w EXCEPT !.order = <<transition_apply(order, t.to)>>,
                        !.log = <<log_row(locked_order_state(t), t.to, t.user)>>]
      check == service_ledger_check(t.op, escrow, 0, 0)
      created == create_escrow_check(t.to, escrow)
  IN
  /\ LockFree(ORDER_ROW, p)
  /\ IF ~can_transition(locked_order_state(t), t.to) THEN Abort(p, t, "InvalidTransition")
     ELSE IF t.op = "mark_as_paid"
     THEN IF created = "ok"
          THEN Commit(p, t, [w1 EXCEPT !.escrow = <<new_escrow(TotalAmount)>>])
          ELSE Abort(p, t, created)
     ELSE IF \/ (t.op = "confirm_delivery" /\ escrow.exists)
             \/ (t.op = "cancel_order" /\ escrow.exists /\ remaining_balance(escrow) > 0)
     THEN IF check = "ok"
          THEN Proceed(p, t, ORDER_ROW, "lock_escrow", w1, escrow,
                       default_amount(escrow, FALSE, 0))
          ELSE Abort(p, t, check)
     ELSE Commit(p, t, w1)

\* a request enters a service as t; err is the exception it raises before its
\* first lock, "" when it raises none and goes on to the lock t.pc
Start(p, t, err) ==
  /\ Ready
  /\ tx[p].pc = "idle"
  /\ IF err = ""
     THEN /\ tx' = [tx EXCEPT ![p] = t]
          /\ UNCHANGED <<offer, orders, evidence, messages, order, logs, escrow, disputes, decisions, seller_active,
                         locks, last, call>>
     ELSE Abort(p, t, err)

\* the service call op by user, asking for to_state
Request(op, user, to_state) ==
  [IdleTx EXCEPT !.op = op, !.user = user, !.to = to_state,
                 !.pc = "lock_order", !.startState = order.state]

\* "" when validate_user_can_transition returns, else the exception
validate_err(user, to_state) ==
  IF validate_user_can_transition(user, to_state) = "ok" THEN "" ELSE "PermissionDenied"

\* OrderService.mark_as_paid
mark_as_paid(p) ==
  /\ Start(p, Request("mark_as_paid", SYSTEM, PAID), "")

\* OrderService.start_order
start_order(p, seller) ==
  /\ Start(p, Request("start_order", seller, IN_PROGRESS),
            IF ~is_seller(seller) THEN "PermissionDenied"
            ELSE validate_err(seller, IN_PROGRESS))

\* OrderService.deliver_order
deliver_order(p, seller) ==
  /\ Start(p, Request("deliver_order", seller, DELIVERED),
            IF ~is_seller(seller) THEN "PermissionDenied"
            ELSE validate_err(seller, DELIVERED))

\* OrderService.confirm_delivery, up to the lock of release_funds
confirm_delivery(p, buyer) ==
  /\ Start(p, Request("confirm_delivery", buyer, CONFIRMED),
            IF ~is_buyer(buyer) THEN "PermissionDenied"
            ELSE validate_err(buyer, CONFIRMED))

\* OrderService.cancel_order, up to the lock of refund_buyer
cancel_order(p, user) ==
  /\ Start(p, Request("cancel_order", user, CANCELLED),
            IF ~(is_participant(user) \/ is_staff(user)) THEN "PermissionDenied"
            ELSE validate_err(user, CANCELLED))

\* DisputeService.create_dispute, up to StateMachine.transition: the Dispute
\* row is inserted before the order is locked
create_dispute(p, user) ==
  LET t == Request("create_dispute", user, DISPUTED) IN
  /\ Start(p, [t EXCEPT !.w.new_dispute =
                           <<[status |-> "OPEN",
                              created_by_role |-> IF is_buyer(user) THEN "BUYER" ELSE "SELLER"]>>],
           IF ~is_participant(user) THEN "PermissionDenied"
           ELSE IF \E d \in 1..Len(disputes) : disputes[d].status \in {"OPEN", "IN_REVIEW"}
           THEN "AlreadyExists"
           ELSE "")

\* the five decisions of DisputeService
DecisionOps ==
  {"refund_buyer_full", "release_to_seller", "dispute_partial_refund",
   "ban_seller", "close_dispute"}

\* faulty variant: closing a dispute is recorded as a refund
decision_type_close_as_refund(op) ==
  CASE op = "release_to_seller" -> "RELEASE_SELLER"
    [] op = "dispute_partial_refund" -> "PARTIAL_REFUND"
    [] op = "ban_seller" -> "BAN_SELLER"
    [] OTHER -> "REFUND_BUYER"

\* DisputeDecision.decision_type of each
decision_type(op) ==
  CASE op = "refund_buyer_full" -> "REFUND_BUYER"
    [] op = "release_to_seller" -> "RELEASE_SELLER"
    [] op = "dispute_partial_refund" -> "PARTIAL_REFUND"
    [] op = "ban_seller" -> "BAN_SELLER"
    [] OTHER -> "CLOSE_NO_ACTION"

\* the DisputeDecision row DisputeDecision.objects.create(...) inserts; the
\* two amounts are null (<<>>) unless the decision is a partial refund
decision_row(t) ==
  [dispute |-> t.d, decision_type |-> decision_type(t.op),
   buyer_refund_amount |->
     IF t.op = "dispute_partial_refund" THEN <<t.bAmt>> ELSE <<>>,
   seller_release_amount |->
     IF t.op = "dispute_partial_refund" THEN <<t.sAmt>> ELSE <<>>]

\* faulty variant: every decision that moves the order asks for REFUNDED
decision_target_refunded(op) ==
  IF op = "close_dispute" THEN "" ELSE REFUNDED

\* the order state a decision asks StateMachine.transition for
decision_target(op) ==
  IF op = "release_to_seller" THEN CONFIRMED
  ELSE IF op = "close_dispute" THEN "" ELSE REFUNDED

\* the splits an adjudicator may ask for: nothing, less than is held (1, 0),
\* all of it to the seller, all of it between the two, more than is held
Splits ==
  {<<0, 0>>, <<1, 0>>, <<0, TotalAmount>>, <<1, TotalAmount - 1>>, <<TotalAmount, 1>>}

\* a decision of DisputeService (refund_buyer_full, release_to_seller,
\* partial_refund, ban_seller, close_dispute), up to its first lock
Decision(p, op, d, admin, b, s) ==
  /\ op \in DecisionOps
  /\ d \in 1..Len(disputes)
  /\ Len(decisions) < MaxDecisions
  /\ LET t == [Request(op, admin, decision_target(op)) EXCEPT
                 !.d = d, !.bAmt = b, !.sAmt = s,
                 !.startStatus = disputes[d].status]
         check == service_ledger_check(op, escrow, b, s)
     IN Start(p,
          IF op = "close_dispute" \/ (op # "ban_seller" /\ ~escrow.exists)
          THEN [t EXCEPT !.pc = "lock_dispute", !.w.decision = <<decision_row(t)>>]
          ELSE IF op = "ban_seller" THEN [t EXCEPT !.pc = "lock_seller"]
          ELSE [t EXCEPT !.pc = "lock_escrow", !.copy = escrow,
                         !.amount = default_amount(escrow, FALSE, 0)],
          IF ~is_staff(admin) THEN "PermissionDenied"
          ELSE IF op \notin {"close_dispute", "ban_seller"} /\ escrow.exists /\ check # "ok"
          THEN check
          ELSE "")

\* ban_seller: seller.save(), then the refund's validation on order.escrow
LockSeller(p) ==
  LET t == tx[p]
      w1 == [t.w EXCEPT !.seller = <<FALSE>>]
      check == service_ledger_check(t.op, escrow, 0, 0)
  IN
  /\ Ready
  /\ t.pc = "lock_seller"
  /\ LockFree(SELLER_ROW, p)
  /\ IF ~escrow.exists
     THEN Proceed(p, t, SELLER_ROW, "lock_dispute",
                  [w1 EXCEPT !.decision = <<decision_row(t)>>], t.copy, 0)
     ELSE IF check # "ok" THEN Abort(p, t, check)
     ELSE Proceed(p, t, SELLER_ROW, "lock_escrow", w1, escrow,
                  default_amount(escrow, FALSE, 0))

\* the row a service's ledger call writes under the escrow lock
service_escrow_write(t, locked) ==
  CASE t.op \in {"confirm_delivery", "release_to_seller"} -> release_apply(locked, t.amount)
    [] t.op = "dispute_partial_refund" -> partial_apply(locked, t.bAmt, t.sAmt)
    [] OTHER -> refund_apply(locked, t.amount)

\* select_for_update on the escrow row and the update, inside a service's
\* transaction; a decision then inserts its DisputeDecision row
LockEscrow(p) ==
  LET t == tx[p]
      w1 == [t.w EXCEPT !.escrow = <<service_escrow_write(t, escrow)>>]
  IN
  /\ Ready
  /\ t.pc = "lock_escrow"
  /\ t.op \notin LedgerOps
  /\ LockFree(ESCROW_ROW, p)
  /\ IF t.op \in DecisionOps
     THEN Proceed(p, t, ESCROW_ROW, "lock_dispute",
                  [w1 EXCEPT !.decision = <<decision_row(t)>>], t.copy, t.amount)
     ELSE Commit(p, t, w1)

\* a decision's dispute.save(): the UPDATE takes the lock of the Dispute row
LockDispute(p) ==
  LET t == tx[p]
      w1 == [t.w EXCEPT !.dispute =
               <<[d |-> t.d,
                  status |-> IF t.op = "close_dispute" THEN "CLOSED" ELSE "RESOLVED"]>>]
  IN
  /\ Ready
  /\ t.pc = "lock_dispute"
  /\ LockFree(DISPUTE_ROW(t.d), p)
  /\ IF t.op = "close_dispute"
     THEN Commit(p, t, w1)
     ELSE Proceed(p, t, DISPUTE_ROW(t.d), "lock_order", w1, t.copy, t.amount)

\* StateMachine.transition at the end of create_dispute and of a decision
LockOrder(p) ==
  /\ Ready
  /\ tx[p].pc = "lock_order"
  /\ OrderStep(p, tx[p])

\* the row p is waiting to lock
WaitsFor(p) ==
  CASE tx[p].pc = "lock_order" -> ORDER_ROW
    [] tx[p].pc = "lock_escrow" -> ESCROW_ROW
    [] tx[p].pc = "lock_seller" -> SELLER_ROW
    [] tx[p].pc = "lock_dispute" -> DISPUTE_ROW(tx[p].d)
    [] OTHER -> <<"none", 0>>

\* the database finds p and q waiting for each other's locks and ends p's
\* transaction with an error
DeadlockAbort(p) ==
  /\ Ready
  /\ \E q \in Procs \ {p} :
       /\ <<WaitsFor(p), q>> \in locks
       /\ <<WaitsFor(q), p>> \in locks
  /\ Abort(p, tx[p], "DeadlockDetected")

Init == InitRows /\ call = NoCall

\* the lock steps of the transactions in flight
LockStep(p) ==
  \/ LockSeller(p)
  \/ LockEscrow(p)
  \/ LockDispute(p)
  \/ LockOrder(p)

\* one caller at a time: every service, called by every kind of user
Next ==
  \E p \in {1} :
    \/ mark_as_paid(p)
    \/ \E user \in Users : start_order(p, user)
    \/ \E user \in Users : deliver_order(p, user)
    \/ \E user \in Users : confirm_delivery(p, user)
    \/ \E user \in Users : cancel_order(p, user)
    \/ \E user \in Users : create_dispute(p, user)
    \/ \E op \in DecisionOps \ {"dispute_partial_refund"}, d \in 1..Len(disputes), admin \in Users :
         Decision(p, op, d, admin, 0, 0)
    \/ \E d \in 1..Len(disputes), admin \in Users, split \in Splits :
         Decision(p, "dispute_partial_refund", d, admin, split[1], split[2])
    \/ LockStep(p)
    \/ Return

Spec == Init /\ [][Next]_vars

\* the splits asked for while other calls are in flight
RaceSplits == {<<0, 0>>, <<1, TotalAmount - 1>>}

\* concurrent requests: the order's seller, its buyer and an adjudicator call
\* the services open to them, in any interleaving
NextRace ==
  \E p \in Procs :
    \/ mark_as_paid(p)
    \/ start_order(p, SELLER)
    \/ deliver_order(p, SELLER)
    \/ confirm_delivery(p, BUYER)
    \/ \E user \in {BUYER, STAFF} : cancel_order(p, user)
    \/ \E user \in {BUYER, SELLER} : create_dispute(p, user)
    \/ \E op \in DecisionOps \ {"dispute_partial_refund"}, d \in 1..Len(disputes) :
         Decision(p, op, d, STAFF, 0, 0)
    \/ \E d \in 1..Len(disputes), split \in RaceSplits :
         Decision(p, "dispute_partial_refund", d, STAFF, split[1], split[2])
    \/ LockStep(p)
    \/ DeadlockAbort(p)
    \/ Return

SpecRace == Init /\ [][NextRace]_vars

\* the lifecycle of the order without disputes, with create_escrow also
\* called on its own: concurrent requests of the payment webhook, the seller,
\* the buyer and staff
NextPaid ==
  \/ \E p \in Procs :
       \/ mark_as_paid(p)
       \/ LedgerCall(p, "create_escrow", FALSE, 0, 0, 0)
       \/ start_order(p, SELLER)
       \/ deliver_order(p, SELLER)
       \/ confirm_delivery(p, BUYER)
       \/ \E user \in {BUYER, SELLER, STAFF} : cancel_order(p, user)
       \/ LockOrder(p)
       \/ LockEscrow(p)
  \/ Return

SpecPaid == Init /\ [][NextPaid]_vars

\* ------------------------------------------------- orders on the offer
\* the quantities a buyer may ask for: none, up to more than is in stock
Quantities == 0 .. (InitialStock + 1)

\* Offer.can_purchase
can_purchase(o, quantity) ==
  /\ o.status = "ACTIVE"
  /\ quantity >= min_purchase
  /\ quantity <= o.available_stock

\* OrderService.create_order up to OfferService.decrement_stock: the checks
\* on the caller's copy of the offer, then the INSERT of the Order row
create_order(p, buyer, quantity) ==
  /\ Start(p, [IdleTx EXCEPT !.op = "create_order", !.user = buyer,
                             !.quantity = quantity, !.pc = "lock_offer"],
           IF is_seller(buyer) THEN "SelfPurchase"
           ELSE IF offer.status # "ACTIVE" THEN "NotAvailable"
           ELSE IF ~can_purchase(offer, quantity) THEN "InvalidQuantity"
           ELSE "")

\* faulty variant: the UPDATE has no condition on the stock
decrement_matches_always(o, quantity) == TRUE

\* decrement_stock: the filter of the UPDATE (available_stock__gte=quantity),
\* evaluated on the committed row once its lock is held
decrement_matches(o, quantity) == o.available_stock >= quantity

\* decrement_stock: the row after the UPDATE, refresh_from_db and the save
\* that marks it sold out
decrement_apply(o, quantity) ==
  [o EXCEPT
     !.available_stock = o.available_stock - quantity,
     !.sales_count = o.sales_count + 1,
     !.status = IF o.available_stock - quantity = 0 THEN "SOLD_OUT" ELSE o.status]

\* the Order row create_order inserts
order_row(t) == new_order(t.user, offer, t.quantity)

\* OfferService.decrement_stock and the end of create_order: the UPDATE waits
\* for the row lock of the offer, which is held up to the commit that follows
\* at once; no row updated raises and rolls the INSERT of the order back
decrement_stock(p) ==
  LET t == tx[p] IN
  /\ Ready
  /\ t.pc = "lock_offer"
  /\ IF decrement_matches(offer, t.quantity)
     THEN /\ offer' = decrement_apply(offer, t.quantity)
          /\ orders' = Append(orders, order_row(t))
          /\ tx' = [tx EXCEPT ![p] = IdleTx]
          /\ last' = Outcome(p, t, "ok")
          /\ locks' = Release(p)
          /\ UNCHANGED <<evidence, messages, order, logs, escrow, disputes, decisions,
                         seller_active, call>>
     ELSE Abort(p, t, "InsufficientStock")

\* concurrent requests: the buyer and another user (and the seller, who may
\* not) place orders on the offer while the order already placed on it is
\* paid, started or cancelled
NextStock ==
  \/ \E p \in Procs :
       \/ \E buyer \in {BUYER, STRANGER, SELLER}, quantity \in Quantities :
            create_order(p, buyer, quantity)
       \/ decrement_stock(p)
       \/ mark_as_paid(p)
       \/ start_order(p, SELLER)
       \/ \E user \in {BUYER, SELLER, STAFF} : cancel_order(p, user)
       \/ LockOrder(p)
       \/ LockEscrow(p)
  \/ Return

SpecStock == Init /\ [][NextStock]_vars

\* one request at a time: every service of the order and of its dispute, and
\* further orders placed on the offer by the buyer (and by the seller, who is
\* refused)
NextOrders ==
  \/ Next
  \/ \E buyer \in {BUYER, SELLER}, quantity \in Quantities : create_order(1, buyer, quantity)
  \/ decrement_stock(1)

SpecOrders == Init /\ [][NextOrders]_vars

\* ------------------------------------------------ evidence of a dispute
\* the number of evidence items uploaded
MaxEvidence == 1

\* DisputeService.upload_evidence: the checks on the caller's copy of the
\* dispute, then the INSERT of the DisputeEvidence row, in its own transaction
upload_evidence(p, d, user) ==
  LET t == [IdleTx EXCEPT !.op = "upload_evidence", !.user = user, !.d = d,
                          !.startStatus = disputes[d].status]
  IN
  /\ Ready
  /\ tx[p].pc = "idle"
  /\ d \in 1..Len(disputes)
  /\ Len(evidence) < MaxEvidence
  /\ IF ~(is_participant(user) \/ is_staff(user))
     THEN Abort(p, t, "PermissionDenied")
     ELSE IF disputes[d].status = "CLOSED"
     THEN Abort(p, t, "DisputeClosed")
     ELSE /\ evidence' = Append(evidence, [dispute |-> d, uploaded_by |-> user])
          /\ last' = Outcome(p, t, "ok")
          /\ UNCHANGED <<offer, orders, messages, order, logs, escrow, disputes, decisions,
                         seller_active, locks, tx, call>>

\* every service of the order and of its dispute, and the upload of evidence
NextEvidence ==
  \/ Next
  \/ \E d \in 1..Len(disputes), user \in Users : upload_evidence(1, d, user)

SpecEvidence == Init /\ [][NextEvidence]_vars

\* ------------------------------------------------ messages of a dispute
\* the number of messages sent
MaxMessages == 2

\* DisputeService.send_message: the checks of the sender, then the INSERT of
\* the DisputeMessage row, in its own transaction
send_message(p, d, user, is_internal) ==
  LET t == [IdleTx EXCEPT !.op = "send_message", !.user = user, !.d = d] IN
  /\ Ready
  /\ tx[p].pc = "idle"
  /\ d \in 1..Len(disputes)
  /\ Len(messages) < MaxMessages
  /\ IF ~(is_participant(user) \/ is_staff(user))
     THEN Abort(p, t, "PermissionDenied")
     ELSE IF is_internal /\ ~is_staff(user)
     THEN Abort(p, t, "StaffOnly")
     ELSE /\ messages' = Append(messages, [dispute |-> d, sender |-> user,
                                           is_internal |-> is_internal])
          /\ last' = Outcome(p, t, "ok")
          /\ UNCHANGED <<offer, orders, evidence, order, logs, escrow, disputes,
                         decisions, seller_active, locks, tx, call>>

\* faulty variant: every viewer is given every message
get_messages_unfiltered(msgs, d, viewer) ==
  SelectSeq(msgs, LAMBDA m : m.dispute = d)

\* DisputeDetailSerializer.get_messages: obj.messages.all(), without the
\* internal ones when the user of the request is not staff
get_messages(msgs, d, viewer) ==
  IF ~is_staff(viewer)
  THEN SelectSeq(msgs, LAMBDA m : m.dispute = d /\ ~m.is_internal)
  ELSE SelectSeq(msgs, LAMBDA m : m.dispute = d)

\* DisputeDetailView: a participant of the order or staff retrieves the
\* dispute (IsDisputeParticipant refuses anyone else) and is given its messages
DisputeDetailView(d, viewer) ==
  /\ Ready
  /\ d \in 1..Len(disputes)
  /\ is_participant(viewer) \/ is_staff(viewer)
  /\ call' = [fn |-> "get_messages", a |-> viewer, b |-> d,
              result |-> get_messages(messages, d, viewer)]
  /\ UNCHANGED <<offer, orders, evidence, messages, order, logs, escrow, disputes,
                 decisions, seller_active, locks, tx, last>>

\* a dispute is opened on the paid order and closed by staff, while messages
\* are sent and the dispute is viewed by every kind of user
NextMessages ==
  \/ \E p \in {1} :
       \/ mark_as_paid(p)
       \/ \E user \in {BUYER, SELLER} : create_dispute(p, user)
       \/ \E d \in 1..Len(disputes) : Decision(p, "close_dispute", d, STAFF, 0, 0)
       \/ LockOrder(p)
       \/ LockDispute(p)
       \/ \E d \in 1..Len(disputes), user \in Users, is_internal \in BOOLEAN :
            send_message(p, d, user, is_internal)
  \/ \E d \in 1..Len(disputes), viewer \in Users : DisputeDetailView(d, viewer)
  \/ Return

SpecMessages == Init /\ [][NextMessages]_vars

\* ------------------------------- the pure functions of the state machine
\* can_transition(from_state, to_state) is applied
ApplyCanTransition(from_state, to_state) ==
  /\ call' = [fn |-> "can_transition", a |-> from_state, b |-> to_state,
              result |-> can_transition(from_state, to_state)]
  /\ UNCHANGED <<offer, orders, evidence, messages, order, logs, escrow, disputes, decisions, seller_active, locks, tx, last>>

\* validate_user_can_transition(order, user, to_state) is applied; the result
\* is TRUE when it returns and FALSE when it raises PermissionDenied
ApplyValidate(user, to_state) ==
  /\ call' = [fn |-> "validate_user_can_transition", a |-> user, b |-> to_state,
              result |-> validate_user_can_transition(user, to_state) = "ok"]
  /\ UNCHANGED <<offer, orders, evidence, messages, order, logs, escrow, disputes, decisions, seller_active, locks, tx, last>>

InitPure == InitRows /\ call = NoCall

NextPure ==
  \/ \E from_state \in States \cup {UNKNOWN}, to_state \in States \cup {UNKNOWN} :
       ApplyCanTransition(from_state, to_state)
  \/ \E user \in Users, to_state \in States \cup {UNKNOWN} :
       ApplyValidate(user, to_state)

SpecPure == InitPure /\ [][NextPure]_vars

C1_ConcurrentCallsNeverOverpay ==
  escrow.exists => escrow.released + escrow.refunded <= escrow.held

\* C2: after any sequential series of create_escrow, release_funds,
\* refund_buyer and partial_refund calls, successful or rejected, the account
\* has remaining_balance() >= 0, with neither counter negative.
C2_SequentialBalanceInvariant ==
  escrow.exists =>
    /\ remaining_balance(escrow) >= 0
    /\ escrow.released >= 0
    /\ escrow.refunded >= 0
    /\ escrow.held = TotalAmount

\* C2 witness: both counters have moved, nothing remains, and the last call
\* was rejected
C2_Witness ==
  /\ escrow.exists
  /\ escrow.released > 0
  /\ escrow.refunded > 0
  /\ remaining_balance(escrow) = 0
  /\ last.result = "InvalidAmount"

\* C9: once the account is fully resolved (remaining balance 0) every further
\* release_funds or refund_buyer call, with an explicit amount or with the
\* default amount, fails with an invalid-amount error and leaves the account
\* as it was; no such call passes its validation or is waiting to apply.
C9_ResolvedAccountRejectsCalls ==
  [][(escrow.exists /\ remaining_balance(escrow) = 0) =>
       /\ \A p \in Procs :
            /\ ~(tx[p].pc = "lock_escrow" /\ tx[p].op \in {"release_funds", "refund_buyer"})
            /\ ~(tx'[p].pc = "lock_escrow" /\ tx'[p].op \in {"release_funds", "refund_buyer"})
       /\ (last' # last /\ last'.op \in {"release_funds", "refund_buyer"}) =>
            /\ last'.result = "InvalidAmount"
            /\ escrow' = escrow]_vars

\* C9 witness: a release of 1 was rejected on an account that is fully paid out
C9_Witness ==
  /\ escrow.exists
  /\ remaining_balance(escrow) = 0
  /\ last.op = "release_funds"
  /\ last.hasAmt
  /\ last.amt = 1
  /\ last.result = "InvalidAmount"

\* C10: release_funds and refund_buyer use the full remaining balance when no
\* amount is given; an amount <= 0 or above the remaining balance is rejected
\* with an invalid-amount error and the account is unchanged; a successful call
\* adds exactly the amount to exactly one counter.
C10_AmountValidation ==
  [][\A p \in Procs :
       LET RR == {"release_funds", "refund_buyer"}
           given(t) == IF t.hasAmt THEN t.amt ELSE remaining_balance(escrow)
           valid(t) == given(t) > 0 /\ given(t) <= remaining_balance(escrow)
       IN
       \* the call passes its validation
       /\ (tx[p].pc = "idle" /\ tx'[p].pc = "lock_escrow" /\ tx'[p].op \in RR) =>
            valid(tx'[p]) /\ escrow' = escrow
       \* the call is rejected
       /\ (tx' = tx /\ last' # last /\ last'.p = p /\ last'.op \in RR) =>
            /\ ~valid(last')
            /\ last'.result = "InvalidAmount"
            /\ escrow' = escrow
       \* the call applies
       /\ (tx[p].pc = "lock_escrow" /\ tx'[p].pc = "idle" /\ tx[p].op = "release_funds") =>
            /\ last'.result = "ok"
            /\ escrow'.released = escrow.released + given(tx[p])
            /\ escrow'.refunded = escrow.refunded
            /\ escrow'.held = escrow.held
       /\ (tx[p].pc = "lock_escrow" /\ tx'[p].pc = "idle" /\ tx[p].op = "refund_buyer") =>
            /\ last'.result = "ok"
            /\ escrow'.refunded = escrow.refunded + given(tx[p])
            /\ escrow'.released = escrow.released
            /\ escrow'.held = escrow.held]_vars

\* C10 witness: a release of more than is held was rejected on an untouched
\* account (scenario C: release of 300 on an escrow holding 200)
C10_Witness ==
  /\ escrow = new_escrow(TotalAmount)
  /\ last.op = "release_funds"
  /\ last.hasAmt
  /\ last.amt = TotalAmount + 1
  /\ last.result = "InvalidAmount"

C4_ConfirmDeliveryOnce ==
  [][/\ \A p \in Procs :
          (tx[p].op = "confirm_delivery" /\ tx[p].pc # "idle" /\ tx'[p].pc = "idle") =>
            /\ last'.p = p
            /\ last'.op = "confirm_delivery"
            /\ order.state = DELIVERED => last'.result = "ok"
            /\ order.state = CONFIRMED => last'.result = "InvalidTransition"
            /\ last'.result = "ok" =>
                 /\ order.state # CONFIRMED
                 /\ order'.state = CONFIRMED
                 /\ escrow.released = 0
                 /\ escrow'.released = escrow.held
            /\ last'.result # "ok" =>
                 /\ escrow' = escrow
                 /\ order' = order
                 /\ logs' = logs
     /\ Cardinality({i \in 1..Len(logs') : logs'[i].to_state = CONFIRMED}) <= 1]_vars

\* C4 witness: a confirm_delivery that entered while the order was DELIVERED
\* has failed with an invalid-transition error, the other call having
\* confirmed the order and released all that was held
C4_Witness ==
  /\ last.op = "confirm_delivery"
  /\ last.user = BUYER
  /\ last.startState = DELIVERED
  /\ last.result = "InvalidTransition"
  /\ order.state = CONFIRMED
  /\ escrow.released = escrow.held
  /\ escrow.refunded = 0
  /\ Cardinality({i \in 1..Len(logs) : logs[i].to_state = CONFIRMED}) = 1

\* C5: once a dispute is RESOLVED or CLOSED every later decision on it
\* (refund_buyer_full, release_to_seller, partial_refund, ban_seller,
\* close_dispute) fails: no DisputeDecision is recorded, the dispute's status
\* does not change and no funds move.
C5_NoDecisionAfterResolution ==
  [][\A p \in Procs :
       (/\ tx[p].op \in DecisionOps
        /\ tx[p].pc # "idle"
        /\ tx[p].startStatus \in {"RESOLVED", "CLOSED"}
        /\ tx'[p].pc = "idle") =>
         /\ last'.result # "ok"
         /\ decisions' = decisions
         /\ disputes' = disputes
         /\ escrow' = escrow]_vars

\* C6: a successful StateMachine.transition changes the order's state and
\* writes exactly one OrderStateLog record: from_state is the state read under
\* the row lock, to_state the new state, changed_by the acting user; a
\* transition rejected as illegal writes no record and leaves the order's state
\* and timestamps as they were; no record is ever modified or removed.
C6_OneLogRecordPerTransition ==
  [][/\ Len(logs') \in {Len(logs), Len(logs) + 1}
     /\ SubSeq(logs', 1, Len(logs)) = logs
     /\ order' # order <=> logs' # logs
     /\ logs' # logs =>
          /\ order'.state # order.state
          /\ logs'[Len(logs')].from_state = order.state
          /\ logs'[Len(logs')].to_state = order'.state
          /\ \E p \in Procs :
               /\ tx[p].pc # "idle"
               /\ tx'[p].pc = "idle"
               /\ logs'[Len(logs')].changed_by = tx[p].user
     /\ \A p \in Procs :
          /\ Len(tx'[p].w.log) = Len(tx'[p].w.order)
          /\ (tx[p].pc = "lock_order" /\ tx'[p].pc = "lock_escrow") =>
               /\ tx'[p].w.log = <<[from_state |-> order.state, to_state |-> tx[p].to,
                                    changed_by |-> tx[p].user]>>
               /\ tx'[p].w.order[1].state = tx[p].to
          /\ (tx[p].pc = "lock_order" /\ last'.result = "InvalidTransition") =>
               /\ logs' = logs
               /\ order' = order]_vars

\* C6 witness: the seller's start_order entered while the order was PAID, was
\* rejected under the lock because the order had become DISPUTED, and the log
\* holds the two records of the transitions made
C6_Witness ==
  /\ order.state = DISPUTED
  /\ logs = <<[from_state |-> CREATED, to_state |-> PAID, changed_by |-> SYSTEM],
              [from_state |-> PAID, to_state |-> DISPUTED, changed_by |-> BUYER]>>
  /\ last.op = "start_order"
  /\ last.startState = PAID
  /\ last.result = "InvalidTransition"

\* C8: an order's state and its held funds never diverge: an order that is
\* CONFIRMED, REFUNDED or CANCELLED and has an escrow account has remaining
\* balance 0.
C8_TerminalOrderHoldsNothing ==
  (order.state \in {"CONFIRMED", "REFUNDED", "CANCELLED"} /\ escrow.exists) =>
    remaining_balance(escrow) = 0

\* ------------------------------------------- further claims on the ledger
\* C11: after every successful release_funds, refund_buyer or partial_refund
\* the status follows from the amounts alone: RELEASED or REFUNDED exactly when
\* the remaining balance is 0, PARTIAL exactly when some but not all of the
\* held amount has moved, HOLDING exactly when nothing has moved.
C11_StatusFollowsAmounts ==
  escrow.exists =>
    LET moved == escrow.released + escrow.refunded IN
    /\ (escrow.status \in {"RELEASED", "REFUNDED"}) <=> (remaining_balance(escrow) = 0)
    /\ (escrow.status = "PARTIAL") <=> (moved > 0 /\ remaining_balance(escrow) > 0)
    /\ (escrow.status = "HOLDING") <=> (moved = 0)

\* C12: partial_refund(escrow, buyer_amount, seller_amount) is rejected, with
\* amounts and status unchanged, when the two amounts exceed the remaining
\* balance or one of them is negative; otherwise amount_refunded grows by
\* exactly buyer_amount and amount_released by exactly seller_amount in one
\* step.
C12_PartialRefundSplit ==
  [][\A p \in Procs :
       LET bad(t) == \/ t.bAmt < 0
                     \/ t.sAmt < 0
                     \/ t.bAmt + t.sAmt > remaining_balance(escrow)
       IN
       \* the call passes its validation
       /\ (tx[p].pc = "idle" /\ tx'[p].pc = "lock_escrow" /\ tx'[p].op = "partial_refund") =>
            ~bad(tx'[p]) /\ escrow' = escrow
       \* the call is rejected
       /\ (tx' = tx /\ last' # last /\ last'.p = p /\ last'.op = "partial_refund") =>
            /\ bad(last')
            /\ last'.result = "InvalidAmount"
            /\ escrow' = escrow
       \* the call applies
       /\ (tx[p].pc = "lock_escrow" /\ tx'[p].pc = "idle" /\ tx[p].op = "partial_refund") =>
            /\ last'.result = "ok"
            /\ escrow'.refunded = escrow.refunded + tx[p].bAmt
            /\ escrow'.released = escrow.released + tx[p].sAmt
            /\ escrow'.held = escrow.held]_vars

\* C12 witness: a split of 1 and 1 was applied to an untouched account
C12_Witness ==
  /\ last.op = "partial_refund"
  /\ last.bAmt = 1
  /\ last.sAmt = 1
  /\ last.result = "ok"
  /\ escrow.refunded = 1
  /\ escrow.released = 1

C14_ConfirmedOnlyAfterDelivered ==
  \A i \in 1..Len(logs) :
    logs[i].to_state = "CONFIRMED" =>
      \E j \in 1..(i - 1) : logs[j].to_state = "DELIVERED"

\* C15: every transition record was written for an actor of the class allowed
\* for its target state: PAID by no user (the system), IN_PROGRESS and
\* DELIVERED by the seller, CONFIRMED by the buyer, DISPUTED by the buyer or
\* the seller, CANCELLED by the buyer, the seller or staff, REFUNDED by staff.
C15_EveryTransitionAuthorized ==
  \A i \in 1..Len(logs) :
    LET actor == logs[i].changed_by
        target == logs[i].to_state
    IN
    /\ target = "PAID" => actor = "system"
    /\ target \in {"IN_PROGRESS", "DELIVERED"} => actor = "seller"
    /\ target = "CONFIRMED" => actor = "buyer"
    /\ target = "DISPUTED" => actor \in {"buyer", "seller"}
    /\ target = "CANCELLED" => actor \in {"buyer", "seller", "staff"}
    /\ target = "REFUNDED" => actor = "staff"
    /\ target # "CREATED"

\* ------------------------------------------------ claims on permissions
\* C16: start_order or deliver_order called by anyone but the order's seller,
\* confirm_delivery by anyone but the order's buyer, cancel_order by a user
\* who is neither participant nor staff: the call fails with a permission
\* error, and the order's state, the transition log and the escrow account
\* are unchanged.
C16_WrongCallerIsRefused ==
  [][LET wrong(op, user) ==
           \/ (op \in {"start_order", "deliver_order"} /\ user # "seller")
           \/ (op = "confirm_delivery" /\ user # "buyer")
           \/ (op = "cancel_order" /\ user \notin {"buyer", "seller", "staff"})
     IN
     /\ \A p \in Procs :
          \* such a call takes no lock and never gets to the transition
          tx'[p].pc # "idle" => ~wrong(tx'[p].op, tx'[p].user)
     /\ (last' # last /\ wrong(last'.op, last'.user)) =>
          /\ last'.result = "PermissionDenied"
          /\ order' = order
          /\ logs' = logs
          /\ escrow' = escrow
          /\ tx' = tx
          /\ locks' = locks]_vars

\* C16 witness: the seller's confirm_delivery on the DELIVERED order was
\* refused, and the order is still DELIVERED with its escrow untouched
C16_Witness ==
  /\ last.op = "confirm_delivery"
  /\ last.user = SELLER
  /\ last.result = "PermissionDenied"
  /\ order.state = DELIVERED
  /\ escrow = new_escrow(TotalAmount)

\* C17: validate_user_can_transition(order, user, to_state) returns without
\* error exactly when the user is the seller and to_state is IN_PROGRESS,
\* DELIVERED, DISPUTED or CANCELLED, or the buyer and to_state is CONFIRMED,
\* DISPUTED or CANCELLED, or staff and to_state is CANCELLED or REFUNDED; in
\* every other case (every user with PAID or CREATED) it raises
\* PermissionDenied.
C17_ValidateUserTable ==
  call.fn = "validate_user_can_transition" =>
    /\ call.result <=>
         \/ (call.a = "seller" /\ call.b \in {"IN_PROGRESS", "DELIVERED", "DISPUTED", "CANCELLED"})
         \/ (call.a = "buyer" /\ call.b \in {"CONFIRMED", "DISPUTED", "CANCELLED"})
         \/ (call.a = "staff" /\ call.b \in {"CANCELLED", "REFUNDED"})
    /\ call.b \in {"PAID", "CREATED"} => ~call.result

\* C17 witness: staff asked for REFUNDED and was allowed
C17_Witness ==
  /\ call.fn = "validate_user_can_transition"
  /\ call.a = STAFF
  /\ call.b = REFUNDED
  /\ call.result

\* ----------------------------------- claims on the services and the ledger
\* C18: a successful confirm_delivery leaves the order CONFIRMED and its escrow
\* with remaining balance 0, the whole amount that remained added to
\* amount_released and status RELEASED; the state change and the release
\* commit together, a confirm_delivery that fails leaves both as they were,
\* and no committed state has the order CONFIRMED by the buyer while the
\* escrow still holds funds.
C18_ConfirmReleasesEverything ==
  [][/\ \A p \in Procs :
          (tx[p].op = "confirm_delivery" /\ tx[p].pc # "idle" /\ tx'[p].pc = "idle") =>
            /\ (last'.result = "ok") =>
                 /\ order'.state = CONFIRMED
                 /\ escrow'.exists
                 /\ remaining_balance(escrow) > 0
                 /\ remaining_balance(escrow') = 0
                 /\ escrow'.released = escrow.released + remaining_balance(escrow)
                 /\ escrow'.refunded = escrow.refunded
                 /\ escrow'.status = "RELEASED"
            /\ (last'.result # "ok") =>
                 /\ order' = order
                 /\ escrow' = escrow
     \* before the call ends nothing of it is committed
     /\ \A p \in Procs :
          (tx'[p].op = "confirm_delivery" /\ tx'[p].pc # "idle" /\ tx'[p] # tx[p]) =>
            (order' = order /\ escrow' = escrow)
     /\ (\E i \in 1..Len(logs') :
           logs'[i].to_state = CONFIRMED /\ logs'[i].changed_by = BUYER) =>
          /\ order'.state = CONFIRMED
          /\ remaining_balance(escrow') = 0
          /\ escrow'.status = "RELEASED"]_vars

\* C18 witness: the buyer's confirm_delivery has succeeded: the order is
\* CONFIRMED and all that was held is released
C18_Witness ==
  /\ last.op = "confirm_delivery"
  /\ last.user = BUYER
  /\ last.result = "ok"
  /\ order.state = CONFIRMED
  /\ escrow.released = TotalAmount
  /\ escrow.status = "RELEASED"

\* C19: cancel_order on an order whose escrow has remaining balance > 0
\* refunds the whole remaining balance to the buyer (amount_refunded grows by
\* it, nothing remains, status REFUNDED) in the step that makes the transition
\* to CANCELLED; cancel_order on a CREATED order, which has no escrow, changes
\* only the order's state and log.
C19_CancelRefundsEverything ==
  [][\A p \in Procs :
       (/\ tx[p].op = "cancel_order"
        /\ tx[p].pc # "idle"
        /\ tx'[p].pc = "idle"
        /\ last'.result = "ok") =>
         /\ order'.state = CANCELLED
         /\ Len(logs') = Len(logs) + 1
         /\ (escrow.exists /\ remaining_balance(escrow) > 0) =>
              /\ escrow'.refunded = escrow.refunded + remaining_balance(escrow)
              /\ escrow'.released = escrow.released
              /\ escrow'.held = escrow.held
              /\ remaining_balance(escrow') = 0
              /\ escrow'.status = "REFUNDED"
         /\ order.state = CREATED =>
              /\ ~escrow.exists
              /\ escrow' = escrow
              /\ disputes' = disputes
              /\ decisions' = decisions
              /\ seller_active' = seller_active]_vars

\* C19 witness: the buyer has cancelled the paid order and has all of it back
C19_Witness ==
  /\ last.op = "cancel_order"
  /\ last.result = "ok"
  /\ order.state = CANCELLED
  /\ escrow.exists
  /\ escrow.refunded = TotalAmount
  /\ escrow.status = "REFUNDED"

\* C20: a dispute decision that fails, for whatever reason (the caller is not
\* staff, the ledger rejects the split, the order's transition is illegal),
\* applies nothing: the dispute's status, the DisputeDecision rows, the
\* escrow, the order and its log and the seller's active flag are as before
\* the call.
C20_FailedDecisionAppliesNothing ==
  [][(last' # last /\ last'.op \in DecisionOps /\ last'.result # "ok") =>
       /\ disputes' = disputes
       /\ decisions' = decisions
       /\ escrow' = escrow
       /\ order' = order
       /\ logs' = logs
       /\ seller_active' = seller_active
       /\ \A p \in Procs : tx'[p].pc = "idle" \/ tx'[p] = tx[p]]_vars

\* C20 witness: staff's refund_buyer_full has failed at the order's
\* transition, after its refund and its decision were written inside the
\* transaction: the order is REFUNDED by an earlier split of 0 and 0, and all of
\* the held amount is still there
C20_Witness ==
  /\ last.op = "refund_buyer_full"
  /\ last.user = STAFF
  /\ last.result = "InvalidTransition"
  /\ order.state = REFUNDED
  /\ remaining_balance(escrow) = TotalAmount
  /\ Len(decisions) = 1
  /\ seller_active

\* C21: on an OPEN or IN_REVIEW dispute whose order is DISPUTED and whose
\* escrow is untouched, refund_buyer_full refunds all that is held and moves
\* the order to REFUNDED, release_to_seller releases all that is held and moves
\* the order to CONFIRMED; either records exactly one DisputeDecision, sets the
\* dispute RESOLVED and leaves nothing in the escrow, all in the one step that
\* ends the call: no step of the call before that one changes a row.
C21_FullDecisionSettlesAll ==
  [][/\ (/\ last' # last
         /\ last'.op \in {"refund_buyer_full", "release_to_seller"}
         /\ last'.result = "ok"
         /\ disputes[last'.d].status \in {"OPEN", "IN_REVIEW"}
         /\ order.state = DISPUTED
         /\ escrow.exists
         /\ escrow.released = 0
         /\ escrow.refunded = 0) =>
          /\ remaining_balance(escrow') = 0
          /\ escrow'.held = escrow.held
          /\ IF last'.op = "refund_buyer_full"
             THEN /\ escrow'.refunded = escrow.held
                  /\ escrow'.released = 0
                  /\ escrow'.status = "REFUNDED"
                  /\ order'.state = REFUNDED
                  /\ decisions'[Len(decisions')].decision_type = "REFUND_BUYER"
             ELSE /\ escrow'.released = escrow.held
                  /\ escrow'.refunded = 0
                  /\ escrow'.status = "RELEASED"
                  /\ order'.state = CONFIRMED
                  /\ decisions'[Len(decisions')].decision_type = "RELEASE_SELLER"
          /\ Len(decisions') = Len(decisions) + 1
          /\ decisions'[Len(decisions')].dispute = last'.d
          /\ disputes'[last'.d].status = "RESOLVED"
          /\ Len(logs') = Len(logs) + 1
     /\ \A p \in Procs :
          (/\ tx'[p].op \in {"refund_buyer_full", "release_to_seller"}
           /\ tx'[p] # tx[p]
           /\ tx'[p].pc # "idle") =>
            UNCHANGED <<order, logs, escrow, disputes, decisions, seller_active>>]_vars

\* C21 witness: staff's release_to_seller has ended on the disputed order: the
\* seller has all of it, the order is CONFIRMED, the dispute RESOLVED by the
\* one decision
C21_Witness ==
  /\ last.op = "release_to_seller"
  /\ last.result = "ok"
  /\ order.state = CONFIRMED
  /\ escrow.released = TotalAmount
  /\ escrow.status = "RELEASED"
  /\ Len(disputes) = 1
  /\ disputes[1].status = "RESOLVED"
  /\ Len(decisions) = 1

\* C22: a PARTIAL_REFUND decision whose buyer and seller amounts add up to the
\* remaining balance leaves nothing in the escrow and gives it a resolved
\* status (RELEASED or REFUNDED, not PARTIAL), moves the order to REFUNDED,
\* sets the dispute RESOLVED and records one decision with both amounts.
C22_FullSplitResolvesEscrow ==
  [][(/\ last' # last
      /\ last'.op = "dispute_partial_refund"
      /\ last'.result = "ok"
      /\ escrow.exists
      /\ remaining_balance(escrow) > 0
      /\ last'.bAmt + last'.sAmt = remaining_balance(escrow)) =>
       /\ remaining_balance(escrow') = 0
       /\ escrow'.status \in {"RELEASED", "REFUNDED"}
       /\ order'.state = REFUNDED
       /\ disputes'[last'.d].status = "RESOLVED"
       /\ Len(decisions') = Len(decisions) + 1
       /\ decisions'[Len(decisions')].decision_type = "PARTIAL_REFUND"
       /\ decisions'[Len(decisions')].buyer_refund_amount = <<last'.bAmt>>
       /\ decisions'[Len(decisions')].seller_release_amount = <<last'.sAmt>>]_vars

\* C23: a successful ban_seller deactivates the seller, refunds the whole
\* remaining balance to the buyer, moves the order to REFUNDED, sets the dispute
\* RESOLVED and records one BAN_SELLER decision, all in the step that ends the
\* call; in no committed state is the seller deactivated without that decision
\* on record and the buyer refunded (nothing left in the escrow, the order
\* REFUNDED).
C23_BanSellerRefundsBuyer ==
  [][/\ (/\ last' # last
         /\ last'.op = "ban_seller"
         /\ last'.result = "ok") =>
          /\ seller_active
          /\ ~seller_active'
          /\ escrow.exists
          /\ remaining_balance(escrow) > 0
          /\ escrow'.refunded = escrow.refunded + remaining_balance(escrow)
          /\ escrow'.released = escrow.released
          /\ escrow'.held = escrow.held
          /\ order.state = DISPUTED
          /\ order'.state = REFUNDED
          /\ disputes'[last'.d].status = "RESOLVED"
          /\ Len(decisions') = Len(decisions) + 1
          /\ decisions'[Len(decisions')].decision_type = "BAN_SELLER"
          /\ decisions'[Len(decisions')].dispute = last'.d
     /\ (last'.op = "ban_seller" /\ last'.result # "ok") => seller_active' = seller_active
     /\ ~seller_active' =>
          /\ \E i \in 1..Len(decisions') : decisions'[i].decision_type = "BAN_SELLER"
          /\ escrow'.exists
          /\ remaining_balance(escrow') = 0
          /\ escrow'.refunded > 0
          /\ order'.state = REFUNDED]_vars

\* C23 witness: staff's ban_seller has ended on the disputed order: the seller
\* is deactivated, the buyer has all of it back, the order is REFUNDED
C23_Witness ==
  /\ last.op = "ban_seller"
  /\ last.result = "ok"
  /\ ~seller_active
  /\ order.state = REFUNDED
  /\ escrow.refunded = TotalAmount
  /\ escrow.status = "REFUNDED"
  /\ disputes[1].status = "RESOLVED"
  /\ decisions[Len(decisions)].decision_type = "BAN_SELLER"

\* C24: close_dispute on an OPEN or IN_REVIEW dispute records one
\* CLOSE_NO_ACTION decision and sets the dispute CLOSED; the escrow (amounts
\* and status), the order's state, the transition log and the seller's account
\* are as before.
C24_CloseDisputeTouchesNothingElse ==
  [][(/\ last' # last
      /\ last'.op = "close_dispute"
      /\ last'.result = "ok"
      /\ disputes[last'.d].status \in {"OPEN", "IN_REVIEW"}) =>
       /\ Len(decisions') = Len(decisions) + 1
       /\ \A i \in 1..Len(decisions) : decisions'[i] = decisions[i]
       /\ decisions'[Len(decisions')].decision_type = "CLOSE_NO_ACTION"
       /\ decisions'[Len(decisions')].dispute = last'.d
       /\ disputes'[last'.d].status = "CLOSED"
       /\ Len(disputes') = Len(disputes)
       /\ escrow' = escrow
       /\ order' = order
       /\ logs' = logs
       /\ seller_active' = seller_active]_vars

\* C24 witness: staff has closed the open dispute of the disputed order, the
\* escrow still holds all of it
C24_Witness ==
  /\ last.op = "close_dispute"
  /\ last.result = "ok"
  /\ Len(disputes) = 1
  /\ disputes[1].status = "CLOSED"
  /\ Len(decisions) = 1
  /\ decisions[1].decision_type = "CLOSE_NO_ACTION"
  /\ order.state = DISPUTED
  /\ escrow.status = "HOLDING"
  /\ remaining_balance(escrow) = TotalAmount
  /\ seller_active

\* C25: the status of a dispute changes only along OPEN -> IN_REVIEW,
\* IN_REVIEW -> RESOLVED, OPEN -> CLOSED and IN_REVIEW -> CLOSED: RESOLVED is
\* reached only from IN_REVIEW, and the status of a RESOLVED or CLOSED dispute
\* never changes.
C25_DisputeStatusEdges ==
  [][\A d \in 1..Len(disputes) :
       disputes'[d].status # disputes[d].status =>
         <<disputes[d].status, disputes'[d].status>> \in
           {<<"OPEN", "IN_REVIEW">>, <<"IN_REVIEW", "RESOLVED">>,
            <<"OPEN", "CLOSED">>, <<"IN_REVIEW", "CLOSED">>}]_vars

\* C26: an order has at most one dispute that is OPEN or IN_REVIEW at every
\* point, and create_dispute by a participant on an order that is already
\* DISPUTED fails with the already-exists error and adds no dispute.
C26_OneActiveDispute ==
  [][/\ Cardinality({d \in 1..Len(disputes') :
                       disputes'[d].status \in {"OPEN", "IN_REVIEW"}}) <= 1
     /\ (/\ last' # last
         /\ last'.op = "create_dispute"
         /\ is_participant(last'.user)
         /\ last'.startState = DISPUTED) =>
          /\ last'.result = "AlreadyExists"
          /\ disputes' = disputes]_vars

\* C27: create_dispute is all or nothing. Called by a user who is neither the
\* buyer nor the seller, or on an order whose state has no edge to DISPUTED, it
\* fails and leaves the Dispute rows, the transition log and the order as they
\* were; when it succeeds, the caller is a participant, exactly one OPEN
\* dispute with the caller's role is added, and the order has moved to DISPUTED
\* with one log record.
C27_CreateDisputeAllOrNothing ==
  [][(last' # last /\ last'.op = "create_dispute") =>
       /\ (~is_participant(last'.user) \/ ~can_transition(order.state, DISPUTED)) =>
            last'.result # "ok"
       /\ last'.result # "ok" =>
            /\ disputes' = disputes
            /\ logs' = logs
            /\ order' = order
            /\ escrow' = escrow
       /\ last'.result = "ok" =>
            /\ Len(disputes') = Len(disputes) + 1
            /\ \A d \in 1..Len(disputes) : disputes'[d] = disputes[d]
            /\ disputes'[Len(disputes')].status = "OPEN"
            /\ disputes'[Len(disputes')].created_by_role =
                 (IF last'.user = BUYER THEN "BUYER" ELSE "SELLER")
            /\ last'.user \in {BUYER, SELLER}
            /\ order.state \in {PAID, IN_PROGRESS, DELIVERED}
            /\ order'.state = DISPUTED
            /\ Len(logs') = Len(logs) + 1
            /\ logs'[Len(logs')].to_state = DISPUTED
            /\ logs'[Len(logs')].changed_by = last'.user
            /\ escrow' = escrow]_vars

\* C27 witness: the buyer's create_dispute on the order that was never paid
\* has failed at the transition, after its Dispute row was inserted inside the
\* transaction: no dispute is left
C27_Witness ==
  /\ last.op = "create_dispute"
  /\ last.user = BUYER
  /\ last.result = "InvalidTransition"
  /\ order.state = CREATED
  /\ disputes = <<>>
  /\ logs = <<>>

\* C28: whatever the interleaving of concurrent create_order calls on the
\* offer, the quantities of the committed orders add up to no more than the
\* stock the offer started with, available_stock is never below 0 (it is the
\* starting stock less the committed quantities), and a create_order that
\* fails, at its checks or at the conditional decrement, leaves no Order row
\* and the offer as it was.
C28_StockNeverOversold ==
  [][/\ LET sold[i \in 0..Len(orders')] ==
              IF i = 0 THEN 0 ELSE sold[i - 1] + orders'[i].quantity
        IN /\ sold[Len(orders')] <= InitialStock
           /\ offer'.available_stock = InitialStock - sold[Len(orders')]
     /\ offer'.available_stock >= 0
     /\ (last' # last /\ last'.op = "create_order" /\ last'.result # "ok") =>
          /\ orders' = orders
          /\ offer' = offer
     /\ (last' # last /\ last'.op = "create_order" /\ last'.result = "ok") =>
          /\ Len(orders') = Len(orders) + 1
          /\ orders'[Len(orders')].quantity = last'.quantity
          /\ last'.quantity >= min_purchase
          /\ offer'.available_stock = offer.available_stock - last'.quantity]_vars

\* C28 witness: two buyers asked for the whole stock at the same time; one
\* order is committed, the other call has failed at the conditional decrement
\* and left no order
C28_Witness ==
  /\ last.op = "create_order"
  /\ last.result = "InsufficientStock"
  /\ last.quantity = InitialStock
  /\ Len(orders) = 1
  /\ orders[1].quantity = InitialStock
  /\ offer.available_stock = 0
  /\ offer.status = "SOLD_OUT"

\* C29: when the order is cancelled before it is fulfilled (cancel_order from
\* CREATED, PAID or IN_PROGRESS), the quantity reserved when it was created is
\* returned to the available stock of the offer.
C29_CancelReturnsStock ==
  [][(/\ last' # last
      /\ last'.op = "cancel_order"
      /\ last'.result = "ok"
      /\ order.state \in {CREATED, PAID, IN_PROGRESS}) =>
       offer'.available_stock = offer.available_stock + OrderQuantity]_vars

\* C30: upload_evidence succeeds exactly when the dispute is OPEN or IN_REVIEW
\* and the uploader is a participant of the order or staff, and then adds one
\* evidence item; on a RESOLVED or CLOSED dispute, or for any other user, it
\* fails and adds none.
C30_EvidenceOnlyOnActiveDispute ==
  [][(last' # last /\ last'.op = "upload_evidence") =>
       /\ last'.result = "ok" <=>
            /\ disputes[last'.d].status \in {"OPEN", "IN_REVIEW"}
            /\ (is_participant(last'.user) \/ is_staff(last'.user))
       /\ last'.result = "ok" =>
            evidence' = Append(evidence, [dispute |-> last'.d, uploaded_by |-> last'.user])
       /\ last'.result # "ok" => evidence' = evidence]_vars

\* C31: internal messages never reach participants. Every internal message was
\* sent by staff, and what a non-staff viewer is given for a dispute is what
\* the viewer would be given were the internal messages not there: two states
\* that differ only in internal messages have the same public messages, so
\* they give the viewer the same list. No list handed to a non-staff viewer
\* holds an internal message.
C31_InternalMessagesHidden ==
  /\ \A i \in 1..Len(messages) :
       messages[i].is_internal => is_staff(messages[i].sender)
  /\ \A d \in 1..Len(disputes), viewer \in Users :
       ~is_staff(viewer) =>
         get_messages(messages, d, viewer) =
           get_messages(SelectSeq(messages, LAMBDA m : ~m.is_internal), d, viewer)
  /\ (call.fn = "get_messages" /\ ~is_staff(call.a)) =>
       \A i \in 1..Len(call.result) : ~call.result[i].is_internal

\* C31 witness: the dispute holds a message of the buyer and an internal
\* message of staff, and the buyer has been given one message only
C31_Witness ==
  /\ Len(messages) = 2
  /\ \E i \in 1..2 : messages[i].is_internal /\ messages[i].sender = STAFF
  /\ \E i \in 1..2 : ~messages[i].is_internal /\ messages[i].sender = BUYER
  /\ call.fn = "get_messages"
  /\ call.a = BUYER
  /\ Len(call.result) = 1

\* C32: no operation of the lifecycle, the ledger or the disputes changes the
\* buyer, seller, quantity, unit_price, total_amount, platform_fee or
\* seller_amount of an order that exists; every order has, from its creation
\* on, a buyer other than its seller, total_amount = unit_price x quantity and
\* platform_fee + seller_amount = total_amount.
C32_OrderPartiesAndAmountsFixed ==
  [][LET fixed == {"buyer", "seller", "quantity", "unit_price", "total_amount",
                   "platform_fee", "seller_amount"}
         created(o) ==
           /\ o.buyer # o.seller
           /\ o.total_amount = o.unit_price * o.quantity
           /\ o.platform_fee + o.seller_amount = o.total_amount
     IN /\ [f \in fixed |-> order'[f]] = [f \in fixed |-> order[f]]
        /\ Len(orders') >= Len(orders)
        /\ \A i \in 1..Len(orders) :
             [f \in fixed |-> orders'[i][f]] = [f \in fixed |-> orders[i][f]]
        /\ created(order')
        /\ \A i \in 1..Len(orders') : created(orders'[i])]_vars

\* C32 witness: the order has been paid, disputed and refunded by a split; it
\* still has the parties and amounts it was created with, and the buyer has
\* placed another order since
C32_Witness ==
  /\ order.state = REFUNDED
  /\ Len(logs) = 3
  /\ Len(decisions) = 1
  /\ decisions[1].decision_type = "PARTIAL_REFUND"
  /\ order.buyer = BUYER
  /\ order.seller = SELLER
  /\ order.total_amount = TotalAmount
  /\ order.platform_fee + order.seller_amount = TotalAmount
  /\ Len(orders) = 1
  /\ orders[1].quantity = InitialStock
  /\ orders[1].total_amount = TotalAmount * InitialStock

\* C33: once an escrow account exists, no step removes it or changes its
\* amount_held, and its amount_released and amount_refunded never decrease;
\* this also holds after the order has reached a terminal state.
C33_EscrowAmountsMonotone ==
  [][escrow.exists =>
       /\ escrow'.exists
       /\ escrow'.held = escrow.held
       /\ escrow'.released >= escrow.released
       /\ escrow'.refunded >= escrow.refunded]_vars

\* C33 witness: the order was confirmed and its funds released; the account is
\* still there with the amount it was created with
C33_Witness ==
  /\ order.state = CONFIRMED
  /\ escrow.exists
  /\ escrow.held = TotalAmount
  /\ escrow.released = TotalAmount
  /\ escrow.refunded = 0
  /\ escrow.status = "RELEASED"
  /\ last = NoLast

\* C34: in every state the order's completed_at is set exactly when its state
\* is CONFIRMED, REFUNDED or CANCELLED, and its paid_at is set exactly when its
\* log holds a record of a transition to PAID; no step that leaves the order in
\* a non-terminal state sets completed_at.
C34_TimestampsFollowState ==
  /\ order.completed_at <=> order.state \in Terminal
  /\ order.paid_at <=> \E i \in 1..Len(logs) : logs[i].to_state = PAID
  /\ \A p \in Procs : \A i \in 1..Len(tx[p].w.order) :
       tx[p].w.order[i].completed_at <=> tx[p].w.order[i].state \in Terminal

\* C34 witness: an unpaid order was cancelled: it is completed and was never paid
C34_Witness ==
  /\ order.state = CANCELLED
  /\ order.completed_at
  /\ ~order.paid_at
  /\ Len(logs) = 1
  /\ logs[1].from_state = CREATED

\* C35: no interleaving of a dispute decision with a cancel_order or
\* confirm_delivery on the same order reaches a state where one transaction
\* holds the escrow row and waits for the order row while the other holds the
\* order row and waits for the escrow row.
C35_NoLockCycle ==
  \A p, q \in Procs :
    ~ /\ p # q
      /\ tx[p].op \in DecisionOps
      /\ tx[q].op \in {"cancel_order", "confirm_delivery"}
      /\ <<ESCROW_ROW, p>> \in locks
      /\ WaitsFor(p) = ORDER_ROW
      /\ <<ORDER_ROW, q>> \in locks
      /\ WaitsFor(q) = ESCROW_ROW

\* C36: funds move only together with a terminal transition: in every
\* committed state an order that is PAID, IN_PROGRESS, DELIVERED or DISPUTED
\* has an escrow account with nothing released, nothing refunded and status
\* HOLDING.
C36_OpenOrderHoldsEverything ==
  order.state \in {PAID, IN_PROGRESS, DELIVERED, DISPUTED} =>
    /\ escrow.exists
    /\ escrow.released = 0
    /\ escrow.refunded = 0
    /\ escrow.status = "HOLDING"

\* C36 witness: a split larger than what is held was refused on the disputed
\* order; the account still holds everything
C36_Witness ==
  /\ order.state = DISPUTED
  /\ last.op = "dispute_partial_refund"
  /\ last.result = "InvalidAmount"
  /\ escrow.exists
  /\ escrow.held = TotalAmount
  /\ escrow.released = 0
  /\ escrow.refunded = 0
  /\ escrow.status = "HOLDING"

\* C37: while the order is DISPUTED, no call of cancel_order, confirm_delivery,
\* start_order, deliver_order or create_dispute made by the buyer or the seller
\* changes the escrow's amount_released or amount_refunded or moves the order
\* to a terminal state.
C37_DisputedOrderSettledByStaffOnly ==
  [][(/\ last' # last
      /\ last'.op \in {"cancel_order", "confirm_delivery", "start_order",
                       "deliver_order", "create_dispute"}
      /\ last'.user \in {BUYER, SELLER}
      /\ order.state = DISPUTED) =>
       /\ escrow'.released = escrow.released
       /\ escrow'.refunded = escrow.refunded
       /\ order'.state \notin Terminal]_vars

\* C38: in every committed state the order is DISPUTED exactly when it has
\* exactly one dispute that is OPEN or IN_REVIEW: an order in a terminal state
\* has no active dispute, and a DISPUTED order has one still to be decided.
C38_DisputedIffActiveDispute ==
  order.state = DISPUTED <=>
    Cardinality({d \in 1..Len(disputes) :
                   disputes[d].status \in {"OPEN", "IN_REVIEW"}}) = 1

\* C39: in every committed state an order in state REFUNDED has an escrow
\* account that records a refund to the buyer: amount_refunded > 0.
C39_RefundedOrderRefundedBuyer ==
  order.state = REFUNDED => (escrow.exists /\ escrow.refunded > 0)

\* C40: under any interleaving of concurrent calls the transition log of the
\* order, oldest record first, is a chain: the first record starts at CREATED,
\* every later record starts where the one before it ended, and the last
\* record ends at the order's current state; an order without records is
\* CREATED.
C40_LogIsChain ==
  /\ Len(logs) = 0 => order.state = CREATED
  /\ Len(logs) > 0 =>
       /\ logs[1].from_state = CREATED
       /\ \A i \in 2..Len(logs) : logs[i].from_state = logs[i - 1].to_state
       /\ logs[Len(logs)].to_state = order.state

\* C40 witness: two requests raced on the delivered order; the buyer's
\* confirmation won and the other was refused under the lock, and the log of
\* four records leads from CREATED to CONFIRMED
C40_Witness ==
  /\ order.state = CONFIRMED
  /\ Len(logs) = 4
  /\ logs[1].from_state = CREATED
  /\ logs[4].from_state = DELIVERED
  /\ logs[4].to_state = CONFIRMED
  /\ last.result = "InvalidTransition"
  /\ last.startState = DELIVERED

====
